---- MODULE Spec2Model ----
(***************************************************************************)
(* Token-probability ranking of backend/api.py: the causal pipeline        *)
(* (LM.check_probabilities), the masked pipeline                            *)
(* (BERTLM.check_probabilities) with its context windows and batches, and   *)
(* the token postprocessors.                                                *)
(*                                                                          *)
(* Python indices are 0-based and TLA+ sequences 1-based: the variables and *)
(* operators below keep the 0-based values of the code (mask_index,         *)
(* min_index, ranks, offsets) and add 1 where a sequence is indexed.        *)
(* Probabilities are integers in units of 10^-6, so that round(x, 5) is a   *)
(* real conversion.                                                         *)
(***************************************************************************)
EXTENDS Integers, Sequences, FiniteSets, TLC

VARIABLES pipeline, weights, y_toks, topk, max_context, batch_size,
          pc, min_ix, input_batches, target_batches, batch_ix,
          real_topk, pred_topk, bpe_strings, result, token, surface

vars == <<pipeline, weights, y_toks, topk, max_context, batch_size,
          pc, min_ix, input_batches, target_batches, batch_ix,
          real_topk, pred_topk, bpe_strings, result, token, surface>>

----------------------------------------------------------------------------
(* Bounds of the model *)

\* number of ordinary word ids in the vocabulary
NumWords == 2
\* longest input text, in word tokens
MaxWords == 4
\* largest context radius max_context
MaxContext == 2
\* largest batch_size
MaxBatch == 3
\* longest raw token given to the postprocessor, in characters
MaxTokenLen == 5

----------------------------------------------------------------------------
(* Vocabulary *)

PadId == 0
ClsId == 1
SepId == 2
MaskId == 3
FirstWordId == MaskId + 1
V == FirstWordId + NumWords
Vocab == 0 .. (V - 1)

Max(a, b) == IF a >= b THEN a ELSE b
Min(a, b) == IF a <= b THEN a ELSE b

Rep(value, n) == [i \in 1 .. Max(n, 0) |-> value]

\* Python seq[lo:hi] for lo, hi >= 0 (bounds clamped to the sequence)
PySlice(seq, lo, hi) == SubSeq(seq, Max(lo, 0) + 1, Min(hi, Len(seq)))

\* Python's seq.index(x), 0-based
IndexOf(seq, x) == CHOOSE i \in 0 .. (Len(seq) - 1) :
                      /\ seq[i + 1] = x
                      /\ \A j \in 0 .. (i - 1) : seq[j + 1] # x

RECURSIVE Concat(_)
Concat(seqs) == IF seqs = <<>> THEN <<>> ELSE Head(seqs) \o Concat(Tail(seqs))

----------------------------------------------------------------------------
(* Tokens as character sequences *)

SPACE_MARK == "U+0120"
BREAK_MARK == "U+010A"
SEP == <<"[", "S", "E", "P", "]">>
CLS == <<"[", "C", "L", "S", "]">>
PAD == <<"[", "P", "A", "D", "]">>
MASK == <<"[", "M", "A", "S", "K", "]">>

\* BertTokenizer.convert_ids_to_tokens: words alternate between a word start
\* and a '##' continuation piece
convert_ids_to_tokens(id) ==
    CASE id = PadId -> PAD
      [] id = ClsId -> CLS
      [] id = SepId -> SEP
      [] id = MaskId -> MASK
      [] OTHER -> LET k == id - FirstWordId
                      stem == Rep("a", (k \div 2) + 1)
                  IN IF k % 2 = 0 THEN stem ELSE <<"#", "#">> \o stem

\* GPT2Tokenizer.decoder: byte-level tokens, with the artifact prefixes the
\* postprocessor knows
Glyphs == <<"U+0120", "U+00E2", "U+010A", "U+013E", "U+013F", "U+013B">>
decoder(id) ==
    IF id = 0 THEN <<"a">>
    ELSE <<Glyphs[((id - 1) % Len(Glyphs)) + 1]>>
             \o Rep("a", ((id - 1) \div Len(Glyphs)) + 1)

startswith(tok, c) == Len(tok) >= 1 /\ tok[1] = c

\* LM.postprocess
LM_postprocess(tok) ==
    LET with_space == startswith(tok, "U+0120")
        with_break == /\ ~startswith(tok, "U+0120")
                      /\ ~startswith(tok, "U+00E2")
                      /\ startswith(tok, "U+010A")
        t1 == IF startswith(tok, "U+0120") THEN Tail(tok)
              ELSE IF startswith(tok, "U+00E2") THEN <<" ">>
              ELSE IF startswith(tok, "U+010A") THEN <<" ">>
              ELSE tok
        t2 == IF startswith(t1, "U+00E2") THEN <<"-">> ELSE t1
        t3 == IF startswith(t2, "U+013E") THEN <<"U+201C">> ELSE t2
        t4 == IF startswith(t3, "U+013F") THEN <<"U+201D">> ELSE t3
        t5 == IF startswith(t4, "U+013B") THEN <<"'">> ELSE t4
        t6 == IF with_space THEN <<SPACE_MARK>> \o t5 ELSE t5
    IN IF with_break THEN <<BREAK_MARK>> \o t6 ELSE t6

\* token[2:] of BERTLM.postprocess
StripContinuation(tok) == PySlice(tok, 2, Len(tok))

\* mutant: the line-break marker is prepended first
AddMarkersBreakFirst(tok, with_space, with_break) ==
    LET t1 == IF with_break THEN <<BREAK_MARK>> \o tok ELSE tok
    IN IF with_space THEN <<SPACE_MARK>> \o t1 ELSE t1

\* the two prepends of BERTLM.postprocess, leading space first
AddMarkers(tok, with_space, with_break) ==
    LET t1 == IF with_space THEN <<SPACE_MARK>> \o tok ELSE tok
    IN IF with_break THEN <<BREAK_MARK>> \o t1 ELSE t1

\* BERTLM.postprocess
BERT_postprocess(tok) ==
    LET with_break == (tok = SEP)
        continuation == Len(tok) >= 2 /\ tok[1] = "#" /\ tok[2] = "#"
        with_space == ~continuation
        stripped == IF continuation THEN StripContinuation(tok) ELSE tok
    IN AddMarkers(stripped, with_space, with_break)

----------------------------------------------------------------------------
(* The pretrained model: an opaque deterministic function from a token     *)
(* sequence to one probability vector per position.  Its weights are one of *)
(* a few score profiles; the vector at a position is the profile rotated by *)
(* a hash of what the model reads there.                                    *)

Profiles == { <<500005, 499965, 15, 9, 5, 1>>,
              <<499990, 499990, 12, 5, 2, 1>>,
              <<999980, 7, 7, 3, 2, 1>> }

RECURSIVE WeightedSum(_)
WeightedSum(seq) ==
    IF seq = <<>> THEN 0
    ELSE Len(seq) * seq[Len(seq)] + WeightedSum(SubSeq(seq, 1, Len(seq) - 1))

Dist(w, h) == [v \in Vocab |-> LET k == (v + h) % V
                               IN IF k < Len(w) THEN w[k + 1] ELSE 0]

\* softmax(self.model(context)) of the causal model: position i sees tokens 0..i
Logits(w, context) ==
    [i \in 1 .. Len(context) |-> Dist(w, WeightedSum(SubSeq(context, 1, i)))]

\* softmax(self.model(src, ...)) of the masked model at 0-based offset j of a window
ModelAt(w, window, j) == Dist(w, WeightedSum(window) + j)

\* round(x, 5): to the nearest multiple of 10^-5, halves to the even one
Round5(x) ==
    LET q == x \div 10
        r == x % 10
    IN IF r < 5 THEN 10 * q
       ELSE IF r > 5 THEN 10 * (q + 1)
       ELSE IF q % 2 = 0 THEN 10 * q ELSE 10 * (q + 1)

\* np.argsort(-d): the index orders with non-increasing d; numpy's default sort
\* is not stable, so tied entries come in any order
RECURSIVE ArgsortOf(_, _)
ArgsortOf(d, S) ==
    IF S = {} THEN {<<>>}
    ELSE LET tops == {v \in S : \A u \in S : d[v] >= d[u]}
         IN UNION {{<<v>> \o rest : rest \in ArgsortOf(d, S \ {v})} : v \in tops}

\* mutant: np.argsort(d), the minus sign forgotten
ArgsortAscending(d) == ArgsortOf([v \in DOMAIN d |-> 0 - d[v]], DOMAIN d)

Argsort(d) == ArgsortOf(d, DOMAIN d)

\* np.argsort over the rows of yhat
RECURSIVE ArgsortRows(_)
ArgsortRows(yhat) ==
    IF yhat = <<>> THEN {<<>>}
    ELSE {<<s>> \o rest : s \in Argsort(Head(yhat)), rest \in ArgsortRows(Tail(yhat))}

\* mutant: sorted_preds[i][:topk + 1]
TopIdsOneMore(sorted, k) == PySlice(sorted, 0, k + 1)

\* sorted_preds[i][:topk]
TopIds(sorted, k) == PySlice(sorted, 0, k)

----------------------------------------------------------------------------
(* Context windows of the masked pipeline *)

\* index of y_toks that the window of mask_index masks: mask_index + 1
MaskedPosition(mask_index) == mask_index + 1

\* tokens_tensor = y.clone(); tokens_tensor[0, mask_index + 1] = self.mask_tok
MaskedCopy(y, mask_index) ==
    [y EXCEPT ![MaskedPosition(mask_index) + 1] = MaskId]

MinIndex(mask_index, R) == Max(0, mask_index - R)

MaxIndex(y, mask_index, R) == Min(Len(y) - 1, mask_index + R + 1)

\* tokens_tensor[:, min_index:max_index]
Subset(y, mask_index, R) ==
    PySlice(MaskedCopy(y, mask_index), MinIndex(mask_index, R), MaxIndex(y, mask_index, R))

\* mutant: the window width taken as 2 * max_context
NeededPaddingEven(y, mask_index, R) == R * 2 - Len(Subset(y, mask_index, R))

NeededPadding(y, mask_index, R) == R * 2 + 1 - Len(Subset(y, mask_index, R))

\* the (left, right) amounts given to ConstantPad1d by the three padding branches
Padding(y, mask_index, R) ==
    LET min_index == MinIndex(mask_index, R)
        max_index == MaxIndex(y, mask_index, R)
        needed_padding == NeededPadding(y, mask_index, R)
    IN IF min_index = 0 /\ max_index = Len(y) - 1
       THEN LET left_needed == R - mask_index
            IN [left |-> left_needed, right |-> needed_padding - left_needed]
       ELSE IF min_index = 0 THEN [left |-> needed_padding, right |-> 0]
       ELSE IF max_index = Len(y) - 1 THEN [left |-> 0, right |-> needed_padding]
       ELSE [left |-> 0, right |-> 0]

\* torch.nn.ConstantPad1d((left, right), value): a negative amount crops
ConstantPad1d(seq, left, right, value) ==
    LET l == IF left >= 0 THEN Rep(value, left) \o seq
             ELSE PySlice(seq, 0 - left, Len(seq))
    IN IF right >= 0 THEN l \o Rep(value, right)
       ELSE PySlice(l, 0, Len(l) + right)

\* one pass of the inner loop: the window appended to cur_input_batch
Window(y, mask_index, R) ==
    LET p == Padding(y, mask_index, R)
    IN ConstantPad1d(Subset(y, mask_index, R), p.left, p.right, PadId)

\* the offset of the window whose scores are read: [:, max_context + 1]
MaskOffset(R) == R + 1

\* max_ix = min(min_ix + batch_size, len(y_toks) - 1)
MaxIx(y, lo, B) == Min(lo + B, Len(y) - 1)

\* cur_input_batch of the batch that starts at lo
CurInputBatch(y, lo, B, R) ==
    [r \in 1 .. (MaxIx(y, lo, B) - lo) |-> Window(y, lo + r - 1, R)]

\* mutant: mask_index = running_ix, the start of the batch not added
CurTargetBatchNoOffset(y, lo, B) ==
    [r \in 1 .. (MaxIx(y, lo, B) - lo) |-> y[MaskedPosition(r - 1) + 1]]

\* cur_target_batch: y[:, mask_index + 1] of each window
CurTargetBatch(y, lo, B) ==
    [r \in 1 .. (MaxIx(y, lo, B) - lo) |-> y[MaskedPosition(lo + r - 1) + 1]]

----------------------------------------------------------------------------
(* Ranking *)

\* probability as the causal pipeline reports it: round(x, 5)
LMReported(x) == Round5(x)

\* probability as the masked pipeline reports it: the tensor value
BERTReported(x) == x

\* y = context[0, 1:]
LMTargets(context) == PySlice(context, 1, Len(context))

\* mutant: logits[0, 1:], the first position dropped instead of the last
LMYhatShifted(w, context) == PySlice(Logits(w, context), 1, Len(context))

\* yhat = softmax(logits[0, :-1])
LMYhat(w, context) == PySlice(Logits(w, context), 0, Len(context) - 1)

\* int(np.where(sorted_preds[i] == y[i])[0][0])
RankOf(sorted, target) == IndexOf(sorted, target)

\* real_topk of the causal pipeline
LMRealTopk(yhat, y, sorted_preds) ==
    [i \in 1 .. Len(y) |-> <<RankOf(sorted_preds[i], y[i]), LMReported(yhat[i][y[i]])>>]

\* pred_topk of the causal pipeline, postprocessed
LMPredTopk(yhat, y, sorted_preds, k) ==
    [i \in 1 .. Len(y) |->
        LET ids == TopIds(sorted_preds[i], k)
        IN [n \in 1 .. Len(ids) |->
               <<LM_postprocess(decoder(ids[n])), LMReported(yhat[i][ids[n]])>>]]

\* yhat of one batch: the scores at the mask offset of every window
BERTYhat(w, src, R) == [i \in 1 .. Len(src) |-> ModelAt(w, src[i], MaskOffset(R))]

\* the real_topk entries of one batch
BERTRealTopk(yhat, tgt, sorted_preds) ==
    [i \in 1 .. Len(yhat) |->
        <<RankOf(sorted_preds[i], tgt[i]), BERTReported(yhat[i][tgt[i]])>>]

\* mutant: the last window of the batch gets no alternatives
BERTPredTopkShort(yhat, sorted_preds, k) ==
    [i \in 1 .. (Len(yhat) - 1) |->
        LET ids == TopIds(sorted_preds[i], k)
        IN [n \in 1 .. Len(ids) |->
               <<convert_ids_to_tokens(ids[n]), BERTReported(yhat[i][ids[n]])>>]]

\* the pred_topk entries of one batch, before postprocessing
BERTPredTopk(yhat, sorted_preds, k) ==
    [i \in 1 .. Len(yhat) |->
        LET ids == TopIds(sorted_preds[i], k)
        IN [n \in 1 .. Len(ids) |->
               <<convert_ids_to_tokens(ids[n]), BERTReported(yhat[i][ids[n]])>>]]

----------------------------------------------------------------------------
(* Inputs *)

\* a text of n word tokens, cycling through the word ids from word s
Text(n, s) == [j \in 1 .. n |-> FirstWordId + ((j + s) % NumWords)]

Texts == {Text(n, s) : n \in 0 .. MaxWords, s \in 0 .. (NumWords - 1)}

\* the causal pipeline gets contexts of up to MaxWords + 1 tokens
Contexts == {Text(n, s) : n \in 0 .. (MaxWords + 1), s \in 0 .. (NumWords - 1)}

TopkValues == {0, 1, 2, V, V + 1}

Alphabet == {"#", "a", "[", "S", "E", "P", "]"}

RawTokens == UNION {[1 .. n -> Alphabet] : n \in 1 .. MaxTokenLen}

Idle ==
    /\ min_ix = 0
    /\ input_batches = <<>>
    /\ target_batches = <<>>
    /\ batch_ix = 1
    /\ real_topk = <<>>
    /\ pred_topk = <<>>
    /\ bpe_strings = <<>>
    /\ result = "none"

\* a call of LM.check_probabilities, after in_text is encoded to context
InitLM ==
    /\ pipeline = "LM"
    /\ weights \in Profiles
    /\ y_toks \in Contexts
    /\ topk \in TopkValues
    /\ max_context = 0
    /\ batch_size = 0
    /\ pc = "start"
    /\ Idle
    /\ token = <<>>
    /\ surface = <<>>

\* a call of BERTLM.check_probabilities, after "[CLS] " + in_text + " [SEP]" is
\* tokenized to y_toks
InitBERT ==
    /\ pipeline = "BERTLM"
    /\ weights \in Profiles
    /\ \E text \in Texts : y_toks = <<ClsId>> \o text \o <<SepId>>
    /\ topk \in TopkValues
    /\ max_context \in 1 .. MaxContext
    /\ batch_size \in 1 .. MaxBatch
    /\ pc = "batching"
    /\ Idle
    /\ token = <<>>
    /\ surface = <<>>

Init == InitLM \/ InitBERT

----------------------------------------------------------------------------
(* LM.check_probabilities *)

LMCheck ==
    /\ pipeline = "LM"
    /\ pc = "start"
    /\ LET yhat == LMYhat(weights, y_toks)
           y == LMTargets(y_toks)
       IN \E sorted_preds \in ArgsortRows(yhat) :
            /\ real_topk' = LMRealTopk(yhat, y, sorted_preds)
            /\ pred_topk' = LMPredTopk(yhat, y, sorted_preds, topk)
    /\ bpe_strings' = [i \in 1 .. Len(y_toks) |-> LM_postprocess(decoder(y_toks[i]))]
    /\ result' = "payload"
    /\ pc' = "done"
    /\ UNCHANGED <<pipeline, weights, y_toks, topk, max_context, batch_size, min_ix,
                   input_batches, target_batches, batch_ix, token, surface>>

\* self.model(context) on a context of no tokens: the model may reject the
\* empty tensor instead of returning no rows
LMModelRejects ==
    /\ pipeline = "LM"
    /\ pc = "start"
    /\ Len(y_toks) = 0
    /\ result' = "RuntimeError"
    /\ pc' = "done"
    /\ UNCHANGED <<pipeline, weights, y_toks, topk, max_context, batch_size, min_ix,
                   input_batches, target_batches, batch_ix, real_topk, pred_topk,
                   bpe_strings, token, surface>>

----------------------------------------------------------------------------
(* BERTLM.check_probabilities *)

\* one pass of "for min_ix in range(0, len(y_toks), batch_size)" that builds at
\* least one window
BERTBuildBatch ==
    /\ pipeline = "BERTLM"
    /\ pc = "batching"
    /\ MaxIx(y_toks, min_ix, batch_size) - min_ix > 0
    /\ input_batches' =
         Append(input_batches, CurInputBatch(y_toks, min_ix, batch_size, max_context))
    /\ target_batches' =
         Append(target_batches, CurTargetBatch(y_toks, min_ix, batch_size))
    /\ min_ix' = min_ix + batch_size
    /\ pc' = IF min_ix + batch_size < Len(y_toks) THEN "batching" ELSE "forward"
    /\ UNCHANGED <<pipeline, weights, y_toks, topk, max_context, batch_size, batch_ix,
                   real_topk, pred_topk, bpe_strings, result, token, surface>>

\* the pass that builds no window: torch.cat of an empty list raises
BERTEmptyBatch ==
    /\ pipeline = "BERTLM"
    /\ pc = "batching"
    /\ MaxIx(y_toks, min_ix, batch_size) - min_ix <= 0
    /\ result' = "RuntimeError"
    /\ pc' = "done"
    /\ UNCHANGED <<pipeline, weights, y_toks, topk, max_context, batch_size, min_ix,
                   input_batches, target_batches, batch_ix, real_topk, pred_topk,
                   bpe_strings, token, surface>>

\* one pass of "for src, tgt in zip(input_batches, target_batches)"
BERTForwardBatch ==
    /\ pipeline = "BERTLM"
    /\ pc = "forward"
    /\ batch_ix <= Len(input_batches)
    /\ LET src == input_batches[batch_ix]
           tgt == target_batches[batch_ix]
           yhat == BERTYhat(weights, src, max_context)
       IN \E sorted_preds \in ArgsortRows(yhat) :
            /\ real_topk' = real_topk \o BERTRealTopk(yhat, tgt, sorted_preds)
            /\ pred_topk' = pred_topk \o BERTPredTopk(yhat, sorted_preds, topk)
    /\ batch_ix' = batch_ix + 1
    /\ UNCHANGED <<pipeline, weights, y_toks, topk, max_context, batch_size, pc, min_ix,
                   input_batches, target_batches, bpe_strings, result, token, surface>>

\* the postprocessing of the tokens and of the alternatives, and the payload
BERTPayload ==
    /\ pipeline = "BERTLM"
    /\ pc = "forward"
    /\ batch_ix > Len(input_batches)
    /\ bpe_strings' =
         [i \in 1 .. Len(y_toks) |-> BERT_postprocess(convert_ids_to_tokens(y_toks[i]))]
    /\ pred_topk' =
         [i \in 1 .. Len(pred_topk) |->
            [n \in 1 .. Len(pred_topk[i]) |->
               <<BERT_postprocess(pred_topk[i][n][1]), pred_topk[i][n][2]>>]]
    /\ result' = "payload"
    /\ pc' = "done"
    /\ UNCHANGED <<pipeline, weights, y_toks, topk, max_context, batch_size, min_ix,
                   input_batches, target_batches, batch_ix, real_topk, token, surface>>

Next ==
    \/ LMCheck
    \/ LMModelRejects
    \/ BERTBuildBatch
    \/ BERTEmptyBatch
    \/ BERTForwardBatch
    \/ BERTPayload

Spec == Init /\ [][Next]_vars

----------------------------------------------------------------------------
(* BERTLM.postprocess on its own *)

InitPostprocess ==
    /\ pipeline = "BERTLM"
    /\ weights = <<>>
    /\ y_toks = <<>>
    /\ topk = 0
    /\ max_context = 0
    /\ batch_size = 0
    /\ pc = "postprocess"
    /\ Idle
    /\ token \in RawTokens
    /\ surface = <<>>

PostprocessCall ==
    /\ pc = "postprocess"
    /\ surface' = BERT_postprocess(token)
    /\ pc' = "done"
    /\ UNCHANGED <<pipeline, weights, y_toks, topk, max_context, batch_size, min_ix,
                   input_batches, target_batches, batch_ix, real_topk, pred_topk,
                   bpe_strings, result, token>>

NextPostprocess == PostprocessCall

SpecPostprocess == InitPostprocess /\ [][NextPostprocess]_vars

----------------------------------------------------------------------------
(* What the claims speak of *)

N == Len(y_toks)

Payload == result = "payload"

Masked == pipeline = "BERTLM" /\ token = <<>>

Causal == pipeline = "LM"

\* the windows and their ground-truth ids in the order they were built:
\* window k (1-based) is the window of mask_index k - 1
FlatWindows == Concat(input_batches)
FlatTargets == Concat(target_batches)

\* the distribution and the ground-truth id behind payload entry k (1-based)
EntryDist(k) ==
    IF Causal THEN Logits(weights, y_toks)[k]
    ELSE ModelAt(weights, FlatWindows[k], MaskOffset(max_context))

EntryTarget(k) == IF Causal THEN y_toks[k + 1] ELSE FlatTargets[k]

Greater(d, t) == Cardinality({v \in Vocab : d[v] > d[t]})
GreaterEq(d, t) == Cardinality({v \in Vocab : d[v] >= d[t]})

Count(seq, x) == Cardinality({i \in 1 .. Len(seq) : seq[i] = x})

----------------------------------------------------------------------------
\* C1 (as stated): in every payload of either pipeline bpe_strings, real_topk and
\* pred_topk have the same length.
C1_EqualLengths ==
    Payload => /\ Len(bpe_strings) = Len(real_topk)
               /\ Len(real_topk) = Len(pred_topk)

\* C1 (amended): in every payload real_topk and pred_topk have the same length,
\* the number of evaluated positions (N - 1 of N >= 1 tokens in the causal
\* pipeline, one per window in the masked one), and bpe_strings has one entry
\* per token, N.
C1_LengthsAmended ==
    Payload => /\ Len(real_topk) = Len(pred_topk)
               /\ Causal => Len(real_topk) = Max(N - 1, 0)
               /\ Masked => Len(real_topk) = Len(FlatWindows)
               /\ Len(bpe_strings) = N

C1_Witness ==
    /\ Payload
    /\ Masked
    /\ Len(input_batches) >= 2
    /\ Len(bpe_strings) = 5
    /\ Len(pred_topk) = 4

\* C2: the masked pipeline never takes a boundary marker as a target and returns
\* N - 2 rank entries for N tokens (1 for a 3-token sequence).
C2_NonBoundaryOnly ==
    Masked => /\ \A k \in 1 .. Len(FlatTargets) : FlatTargets[k] \notin {ClsId, SepId}
              /\ Payload => Len(real_topk) = N - 2

\* C3: an input with nothing to predict (no token in the causal pipeline, at most
\* the two markers in the masked one) ends in EmptyInputError and in no payload.
C3_EmptyInputFails ==
    ((Causal /\ N = 0) \/ (Masked /\ N <= 2)) =>
        /\ ~Payload
        /\ pc = "done" => result = "EmptyInputError"

\* C4: on N >= 2 tokens the causal pipeline returns N - 1 rank entries, and entry
\* i (0-based) holds the rank and the probability of token i + 1 in the
\* distribution the model gave at position i.
C4_CausalAlignment ==
    (Causal /\ Payload /\ N >= 2) =>
        /\ Len(real_topk) = N - 1
        /\ \A k \in 1 .. Len(real_topk) :
             LET d == Logits(weights, y_toks)[k]
                 t == y_toks[k + 1]
             IN /\ real_topk[k][2] = Round5(d[t])
                /\ Greater(d, t) <= real_topk[k][1]
                /\ real_topk[k][1] < GreaterEq(d, t)

C4_Witness ==
    /\ Causal
    /\ Payload
    /\ N = 5
    /\ Len(real_topk) = 4

\* C5 (as stated): every reported rank is in 0 .. V-1 and is the number of
\* vocabulary entries that score strictly higher than the ground truth; it is 0
\* exactly when the ground truth is an arg-max.
C5_RankIsStrictCount ==
    \A k \in 1 .. Len(real_topk) :
        LET d == EntryDist(k)
            t == EntryTarget(k)
            rank == real_topk[k][1]
        IN /\ rank \in 0 .. (V - 1)
           /\ rank = Greater(d, t)
           /\ (rank = 0) <=> (Greater(d, t) = 0)

\* C5 (amended): every reported rank is in 0 .. V-1 and lies between the number
\* of entries scoring strictly higher than the ground truth and that number plus
\* the number of other entries tied with it; so it is the strict count whenever
\* no other entry ties with the ground truth, and a rank of 0 implies that the
\* ground truth is an arg-max.
C5_RankAmended ==
    \A k \in 1 .. Len(real_topk) :
        LET d == EntryDist(k)
            t == EntryTarget(k)
            rank == real_topk[k][1]
        IN /\ rank \in 0 .. (V - 1)
           /\ Greater(d, t) <= rank
           /\ rank <= GreaterEq(d, t) - 1
           /\ GreaterEq(d, t) = Greater(d, t) + 1 => rank = Greater(d, t)
           /\ rank = 0 => Greater(d, t) = 0

\* a tied arg-max ground truth that is ranked 1, in a payload of two batches
C5_Witness ==
    /\ Masked
    /\ Payload
    /\ Len(input_batches) >= 2
    /\ \E k \in 1 .. Len(real_topk) :
         /\ Greater(EntryDist(k), EntryTarget(k)) = 0
         /\ real_topk[k][1] = 1

\* the probability a payload of the running pipeline reports for x
Reported(x) == IF Causal THEN Round5(x) ELSE x

\* the surface form under which a payload of the running pipeline names id v
Surface(v) ==
    IF Causal THEN LM_postprocess(decoder(v))
    ELSE BERT_postprocess(convert_ids_to_tokens(v))

\* C6 (as stated): in every payload each top-K list is ordered by non-increasing
\* probability, has min(K, V) entries, and each entry carries the probability
\* that the position's distribution gives the vocabulary entry it names.
C6_TopkExactProbability ==
    Payload =>
        \A k \in 1 .. Len(pred_topk) :
            LET alts == pred_topk[k]
                d == EntryDist(k)
            IN /\ Len(alts) = Min(topk, V)
               /\ \A m, n \in 1 .. Len(alts) : m < n => alts[m][2] >= alts[n][2]
               /\ \A n \in 1 .. Len(alts) :
                    \E v \in Vocab : alts[n][1] = Surface(v) /\ alts[n][2] = d[v]

\* C6 (amended): as stated, except that the causal pipeline reports each
\* probability rounded to 5 decimals (the masked pipeline reports it as it is).
C6_TopkAmended ==
    Payload =>
        \A k \in 1 .. Len(pred_topk) :
            LET alts == pred_topk[k]
                d == EntryDist(k)
            IN /\ Len(alts) = Min(topk, V)
               /\ \A m, n \in 1 .. Len(alts) : m < n => alts[m][2] >= alts[n][2]
               /\ \A n \in 1 .. Len(alts) :
                    \E v \in Vocab : alts[n][1] = Surface(v) /\ alts[n][2] = Reported(d[v])

\* more alternatives asked for than the vocabulary holds, and a rounded
\* probability that differs from the exact one
C6_Witness ==
    /\ Causal
    /\ Payload
    /\ topk = V + 1
    /\ Len(pred_topk) >= 2
    /\ Len(pred_topk[1]) = V
    /\ \E v \in Vocab : pred_topk[1][1][2] # Logits(weights, y_toks)[1][v]
                        /\ pred_topk[1][1][1] = Surface(v)

\* C7: in a document of more than 2R+1 tokens the window of a target p < R starts
\* with exactly R - p pad ids, has no right padding, and holds the mask id at
\* window offset R (p is the code's mask_index, counted from 0).
C7_LeftPaddedWindow ==
    (Masked /\ N > 2 * max_context + 1) =>
        \A k \in 1 .. Len(FlatWindows) :
            LET w == FlatWindows[k]
                p == k - 1
                R == max_context
            IN p < R =>
                 /\ \A i \in 1 .. (R - p) : w[i] = PadId
                 /\ w[R - p + 1] # PadId
                 /\ w[Len(w)] # PadId
                 /\ w[R + 1] = MaskId

\* C9: every window holds exactly one mask id, at the offset whose scores are
\* read.
C9_MaskAtReadOffset ==
    Masked =>
        \A k \in 1 .. Len(FlatWindows) :
            LET w == FlatWindows[k]
            IN /\ Count(w, MaskId) = 1
               /\ w[MaskOffset(max_context) + 1] = MaskId

\* C10: for N >= 3 and R >= 1 every window is 2R+1 wide, both pad amounts of its
\* padding branch are non-negative, and the window is a run of pad ids, an
\* unbroken slice of the (masked) token sequence, and a run of pad ids.
C10_WindowShape ==
    (Masked /\ N >= 3 /\ max_context >= 1) =>
        \A k \in 1 .. Len(FlatWindows) :
            LET w == FlatWindows[k]
                pads == Padding(y_toks, k - 1, max_context)
                source == MaskedCopy(y_toks, k - 1)
            IN /\ Len(w) = 2 * max_context + 1
               /\ pads.left >= 0
               /\ pads.right >= 0
               /\ \E l, r \in 0 .. Len(w) :
                    /\ l + r <= Len(w)
                    /\ \A i \in 1 .. Len(w) :
                         (w[i] = PadId) <=> (i <= l \/ i > Len(w) - r)
                    /\ \E a \in 1 .. (N + 1) :
                         /\ a + (Len(w) - l - r) - 1 <= N
                         /\ SubSeq(w, l + 1, Len(w) - r)
                              = SubSeq(source, a, a + (Len(w) - l - r) - 1)

\* a 6-token document whose windows come from the left-padding branch, from no
\* branch, and from the right-padding branch
C10_Witness ==
    /\ Masked
    /\ N = 6
    /\ max_context = 1
    /\ Len(FlatWindows) = 5
    /\ FlatWindows[1][1] = PadId
    /\ Count(FlatWindows[3], PadId) = 0
    /\ FlatWindows[5][3] = PadId

\* C8: BERTLM.postprocess turns '[SEP]' into break marker, space marker, '[SEP]';
\* a token that starts with '##' into the token without the '##' and without any
\* marker; every other token into the space marker followed by the token.
C8_Postprocess ==
    (pc = "done" /\ token # <<>>) =>
        /\ token = SEP => surface = <<BREAK_MARK, SPACE_MARK>> \o token
        /\ (Len(token) >= 2 /\ token[1] = "#" /\ token[2] = "#") =>
             /\ token = <<"#", "#">> \o surface
             /\ token # SEP
        /\ (token # SEP /\ ~(Len(token) >= 2 /\ token[1] = "#" /\ token[2] = "#")) =>
             surface = <<SPACE_MARK>> \o token

C8_Witness ==
    /\ pc = "done"
    /\ token = SEP
    /\ surface[1] = BREAK_MARK
    /\ surface[2] = SPACE_MARK

\* the number of windows in the first n batches
RECURSIVE WindowsIn(_)
WindowsIn(n) == IF n = 0 THEN 0 ELSE Len(input_batches[n]) + WindowsIn(n - 1)

\* C11: every batch holds at most batch_size windows; the batches, concatenated
\* in the order they are processed, hold the window of target position 1, then
\* that of position 2, and so on, each position once; the ground-truth id
\* stored with a window is the token at its masked position before masking;
\* and the payload entries are appended in that order, batch by batch.
C11_BatchOrder ==
    Masked =>
        /\ Len(input_batches) = Len(target_batches)
        /\ \A b \in 1 .. Len(input_batches) :
             /\ Len(input_batches[b]) <= batch_size
             /\ Len(input_batches[b]) = Len(target_batches[b])
        /\ Len(FlatWindows) <= N - 1
        /\ pc # "batching" => Len(FlatWindows) = N - 1
        /\ \A k \in 1 .. Len(FlatWindows) :
             /\ FlatWindows[k] = Window(y_toks, k - 1, max_context)
             /\ FlatTargets[k] = y_toks[MaskedPosition(k - 1) + 1]
        /\ pc = "forward" => Len(real_topk) = WindowsIn(batch_ix - 1)
        /\ Len(pred_topk) = Len(real_topk)
        /\ \A k \in 1 .. Len(real_topk) :
             LET d == ModelAt(weights, FlatWindows[k], MaskOffset(max_context))
                 t == y_toks[MaskedPosition(k - 1) + 1]
             IN /\ real_topk[k][2] = d[t]
                /\ Greater(d, t) <= real_topk[k][1]
                /\ real_topk[k][1] < GreaterEq(d, t)

\* a payload built from three batches of 2, 2 and 1 windows
C11_Witness ==
    /\ Masked
    /\ Payload
    /\ N = 6
    /\ batch_size = 2
    /\ Len(input_batches) = 3
    /\ Len(input_batches[3]) = 1
    /\ Len(real_topk) = 5

\* C12: on N >= 3 tokens, whatever batch_size >= 1, no pass of the batching loop
\* builds an empty batch, so the call does not fail there: it ends, and ends
\* with a payload.
C12_NoEmptyBatch ==
    (Masked /\ N >= 3 /\ batch_size >= 1) =>
        /\ result # "RuntimeError"
        /\ pc = "done" => Payload

====
